---- MODULE Spec2Model ----
(***************************************************************************)
(* A model of src/ble_motion_detection.py: the two fixed-offset decoders   *)
(* (parse_accelerometer_data, parse_ibeacon_data), the motion classifier   *)
(* (detect_motion) and the dispatch loop of scan_and_detect.               *)
(*                                                                         *)
(* A packet is a sequence of bytes (0..255).  bytes.hex() is modelled as   *)
(* the sequence of lower-case hexadecimal characters it produces, and      *)
(* int(s, 16) as a parse of such characters; Python's s[a:b] is a          *)
(* 0-based, half-open slice that clamps to the length of s.                *)
(***************************************************************************)
EXTENDS Integers, Sequences, FiniteSets, TLC

VARIABLES pc, devices, di, pi, value, accel_data, status, ibeacon_data, calls, log

vars == <<pc, devices, di, pi, value, accel_data, status, ibeacon_data, calls, log>>

---------------------------------------------------------------------------
(* Program constants *)

MOTION_THRESHOLD == 50

\* the length check one byte too low
ACCEL_MIN_HEX_TooLow == 38 - 2

ACCEL_MIN_HEX == 38

\* the length check one byte too low
IBEACON_MIN_HEX_TooLow == 56 - 2

IBEACON_MIN_HEX == 56

---------------------------------------------------------------------------
(* Bounds of the model *)

\* longest packet of the decoder harness, in bytes
MaxLen == 29

\* most devices in one scan result
MaxDevices == 2

\* most manufacturer-data payloads in one scan result, over all its devices
MaxPayloads == 2

\* the classifier harness draws axis values from -MaxAxis..MaxAxis (and the
\* extremes of the signed 16-bit range)
MaxAxis == 15

---------------------------------------------------------------------------
(* Python values *)

\* Python's None
None == [tag |-> "None"]

\* a Python int held in a field that may also hold None
PyInt(n) == [tag |-> "int", val |-> n]

\* a truth test on the values instead of on the dict
Truthy_AnyValue(d) ==
    /\ d.tag = "dict"
    /\ IF "x" \in DOMAIN d THEN d.x # 0 \/ d.y # 0 \/ d.z # 0 ELSE TRUE

\* the truth value of a parser's result in `if accel_data:` / `if ibeacon_data:`
\* None is false; a dict is true when it has at least one key, whatever the
\* values are.  Both parsers only build dicts with three keys.
Truthy(d) == d.tag = "dict"

HexChars == <<"0","1","2","3","4","5","6","7","8","9","a","b","c","d","e","f">>

\* bytes.hex(): two characters per byte, the high nibble first
hex(packet) ==
    [i \in 1..(2 * Len(packet)) |->
        IF i % 2 = 1
        THEN HexChars[(packet[(i + 1) \div 2] \div 16) + 1]
        ELSE HexChars[(packet[i \div 2] % 16) + 1]]

\* s[a:b] for 0 <= a <= b
Slice(s, a, b) ==
    LET hi == IF b < Len(s) THEN b ELSE Len(s)
    IN  IF a >= hi THEN <<>> ELSE [i \in 1..(hi - a) |-> s[a + i]]

DigitValue(c) == CHOOSE v \in 0..15 : HexChars[v + 1] = c

\* int(s, 16) of a non-empty string of hexadecimal characters
\* the value of the first n characters of s as a hexadecimal numeral
RECURSIVE HexPrefixValue(_, _)
HexPrefixValue(s, n) ==
    IF n = 0 THEN 0 ELSE 16 * HexPrefixValue(s, n - 1) + DigitValue(s[n])

int16(s) == HexPrefixValue(s, Len(s))

\* int('', 16) raises ValueError
IntRaises(s) == Len(s) = 0

---------------------------------------------------------------------------
(* parse_accelerometer_data *)

\* the sign boundary off by one: 0x8000 is left positive
ToSigned_OffByOne(v) == IF v > 32768 THEN v - 65536 ELSE v

\* lines 34-39: reinterpret an unsigned 16-bit value as signed
ToSigned(v) == IF v > 32767 THEN v - 65536 ELSE v

\* The result is the dict {"x", "y", "z"}, or None when the length check
\* raises ValueError (line 26) or int() raises ValueError on an empty slice;
\* both are caught at line 43.
\* lines 24-45, given hex_packet
AccelerometerFields(hex_packet) ==
    LET xs == Slice(hex_packet, 26, 30)
        ys == Slice(hex_packet, 30, 34)
        zs == Slice(hex_packet, 34, 38)
    IN  IF Len(hex_packet) < ACCEL_MIN_HEX THEN None
        ELSE IF IntRaises(xs) \/ IntRaises(ys) \/ IntRaises(zs) THEN None
        ELSE [tag |-> "dict",
              x |-> ToSigned(int16(xs)),
              y |-> ToSigned(int16(ys)),
              z |-> ToSigned(int16(zs))]

\* line 22 binds hex_packet once; the rest of the function reads it
parse_accelerometer_data(packet) ==
    CHOOSE r \in {AccelerometerFields(hex_packet) : hex_packet \in {hex(packet)}} : TRUE

---------------------------------------------------------------------------
(* detect_motion *)

\* the sum of the first n elements of s
RECURSIVE SumPrefix(_, _)
SumPrefix(s, n) == IF n = 0 THEN 0 ELSE SumPrefix(s, n - 1) + s[n]

SumSeq(s) == SumPrefix(s, Len(s))

\* list(accel_data.values()): the values in insertion order
Values(d) == <<d.x, d.y, d.z>>

\* numpy.var(a) is sum((a - mean(a))^2) / n with mean(a) = sum(a) / n.  With
\* n = Len(a), n^3 * var(a) is the integer below, so the comparison with the
\* threshold is made exactly.  (For 16-bit inputs the float64 result is on the
\* same side of the threshold as the exact one: a variance of exactly 50 has
\* an integral mean and is computed exactly, and the nearest other variances
\* differ from 50 by more than 0.2.)
\* numpy computes in float64 and cannot overflow; the model's integers are
\* 32-bit, so a square is saturated at 2^28.  A sum of up to seven such squares
\* fits, and it is on the same side of any threshold below 2^28 as the true
\* sum.
SatSq(d) == IF d > 16384 \/ d < -16384 THEN 268435456 ELSE d * d

VarNum(a) ==
    LET n == Len(a)
        s == SumSeq(a)
    IN  SumSeq([i \in 1..n |-> SatSq(n * a[i] - s)])

\* the comparison made inclusive
VarianceAbove_Inclusive(a, t) ==
    LET n == Len(a) IN n > 0 /\ VarNum(a) >= t * n * n * n

\* variance > MOTION_THRESHOLD; numpy.var of an empty list is nan, and
\* nan > 50 is False
VarianceAbove(a, t) ==
    LET n == Len(a) IN n > 0 /\ VarNum(a) > t * n * n * n

\* the variance taken relative to the mean: a zero mean faults
detect_motion_Relative(d) ==
    IF d = None THEN "Error"
    ELSE IF SumSeq(Values(d)) = 0 THEN "Error"
    ELSE IF VarianceAbove(Values(d), MOTION_THRESHOLD) THEN "Moving"
    ELSE "Stationary"

\* None has no .values(): the AttributeError is caught at line 65
detect_motion(d) ==
    IF d = None THEN "Error"
    ELSE IF VarianceAbove(Values(d), MOTION_THRESHOLD) THEN "Moving"
    ELSE "Stationary"

---------------------------------------------------------------------------
(* parse_ibeacon_data *)

\* lines 93-94: int(s, 16) if s else None
IntOrNone(s) == IF Len(s) > 0 THEN PyInt(int16(s)) ELSE None

\* the uuid cut at character 32, as the comment at line 89 words it
IBeaconFields_ShortUuid(hex_packet) ==
    IF Len(hex_packet) < IBEACON_MIN_HEX THEN None
    ELSE [tag |-> "dict",
          uuid |-> Slice(hex_packet, 16, 32),
          major |-> IntOrNone(Slice(hex_packet, 48, 52)),
          minor |-> IntOrNone(Slice(hex_packet, 52, 56))]

\* lines 84-97, given hex_packet
IBeaconFields(hex_packet) ==
    IF Len(hex_packet) < IBEACON_MIN_HEX THEN None
    ELSE [tag |-> "dict",
          uuid |-> Slice(hex_packet, 16, 48),
          major |-> IntOrNone(Slice(hex_packet, 48, 52)),
          minor |-> IntOrNone(Slice(hex_packet, 52, 56))]

\* line 82 binds hex_packet once; the rest of the function reads it
parse_ibeacon_data(packet) ==
    CHOOSE r \in {IBeaconFields(hex_packet) : hex_packet \in {hex(packet)}} : TRUE

---------------------------------------------------------------------------
(* Inputs *)

\* A packet of len bytes whose bytes at offsets 13..18 hold the three 16-bit
\* words w[1], w[2], w[3] big-endian, and whose byte at any other offset o
\* is (seed + 37 * o) % 256.
MkPacket(len, seed, w) ==
    [i \in 1..len |->
        LET o == i - 1
            k == o - 13
        IN  IF o \in 13..18
            THEN IF k % 2 = 0 THEN w[(k \div 2) + 1] \div 256
                 ELSE w[(k \div 2) + 1] % 256
            ELSE (seed + 37 * o) % 256]

\* raw 16-bit words of the decoder harness: both sides of the sign boundary
Words == {0, 50, 32767, 32768, 65486, 65535}

Seeds == {0, 171}

Packets ==
    {MkPacket(len, seed, <<x, y, z>>) :
        len \in 0..MaxLen, seed \in Seeds, x \in Words, y \in Words, z \in Words}

NoCalls == [accel |-> 0, ibeacon |-> 0, detect |-> 0]

---------------------------------------------------------------------------
(* The decoder harness: one packet, each decoder applied to it *)

DecodeInit ==
    /\ pc = "ready"
    /\ value \in Packets
    /\ devices = <<>>
    /\ di = 0
    /\ pi = 0
    /\ accel_data = None
    /\ ibeacon_data = None
    /\ status = "unset"
    /\ calls = NoCalls
    /\ log = <<>>

DecodeAccelerometer ==
    /\ pc = "ready"
    /\ calls.accel = 0
    /\ accel_data' = parse_accelerometer_data(value)
    /\ calls' = [calls EXCEPT !.accel = 1]
    /\ UNCHANGED <<pc, devices, di, pi, value, status, ibeacon_data, log>>

DecodeIBeacon ==
    /\ pc = "ready"
    /\ calls.ibeacon = 0
    /\ ibeacon_data' = parse_ibeacon_data(value)
    /\ calls' = [calls EXCEPT !.ibeacon = 1]
    /\ UNCHANGED <<pc, devices, di, pi, value, status, accel_data, log>>

DecodeNext == DecodeAccelerometer \/ DecodeIBeacon

SpecDecode == DecodeInit /\ [][DecodeNext]_vars

---------------------------------------------------------------------------
(* The classifier harness: one sample (or None), the classifier applied *)

AxisValues == (0 - MaxAxis)..MaxAxis \cup {-32768, -32753, 32752, 32767}

Samples ==
    {[tag |-> "dict", x |-> x, y |-> y, z |-> z] :
        x \in AxisValues, y \in AxisValues, z \in AxisValues}

ClassifyInit ==
    /\ pc = "ready"
    /\ accel_data \in Samples \cup {None}
    /\ value = <<>>
    /\ devices = <<>>
    /\ di = 0
    /\ pi = 0
    /\ ibeacon_data = None
    /\ status = "unset"
    /\ calls = NoCalls
    /\ log = <<>>

Classify ==
    /\ pc = "ready"
    /\ calls.detect = 0
    /\ status' = detect_motion(accel_data)
    /\ calls' = [calls EXCEPT !.detect = 1]
    /\ UNCHANGED <<pc, devices, di, pi, value, accel_data, ibeacon_data, log>>

ClassifyNext == Classify

SpecClassify == ClassifyInit /\ [][ClassifyNext]_vars

---------------------------------------------------------------------------
(* scan_and_detect *)

\* manufacturer-data payloads a scan may deliver: empty, one byte short of
\* and exactly at each decoder's length gate, and longer
DispatchPackets ==
    { MkPacket(0, 0, <<0, 0, 0>>),
      MkPacket(18, 171, <<50, 65486, 0>>),
      MkPacket(19, 0, <<0, 0, 0>>),
      MkPacket(19, 171, <<50, 65486, 0>>),
      MkPacket(27, 0, <<15, 0, 0>>),
      MkPacket(28, 171, <<16, 0, 0>>),
      MkPacket(MaxLen, 0, <<32768, 32767, 0>>) }

PayloadSeqs == UNION {[1..n -> DispatchPackets] : n \in 0..MaxPayloads}

CountSeqs == UNION {[1..d -> 0..MaxPayloads] : d \in 0..MaxDevices}

\* the payloads of device k, when device j holds counts[j] payloads of flat
DeviceEntries(flat, counts, k) ==
    LET before == SumSeq(SubSeq(counts, 1, k - 1))
    IN  SubSeq(flat, before + 1, before + counts[k])

\* What BleakScanner.discover() may return: a list of devices, each with the
\* values of its manufacturer_data dict in iteration order (possibly none).
DeviceLists ==
    {[k \in 1..Len(fc[2]) |-> DeviceEntries(fc[1], fc[2], k)] :
        fc \in {q \in PayloadSeqs \X CountSeqs : SumSeq(q[2]) = Len(q[1])}}

Init ==
    /\ pc = "scan"
    /\ devices = <<>>
    /\ di = 0
    /\ pi = 0
    /\ value = <<>>
    /\ accel_data = None
    /\ ibeacon_data = None
    /\ status = "unset"
    /\ calls = NoCalls
    /\ log = <<>>

\* lines 113-121: the scan returns; with no device the function returns
Discover ==
    /\ pc = "scan"
    /\ \E ds \in DeviceLists :
        /\ devices' = ds
        /\ pc' = IF Len(ds) = 0 THEN "done" ELSE "device"
        /\ di' = IF Len(ds) = 0 THEN 0 ELSE 1
    /\ UNCHANGED <<pi, value, accel_data, status, ibeacon_data, calls, log>>

\* lines 148-150: the scan raises; the handler prints and the function ends
DiscoverFails ==
    /\ pc = "scan"
    /\ pc' = "done"
    /\ UNCHANGED <<devices, di, pi, value, accel_data, status, ibeacon_data, calls, log>>

\* a device without manufacturer data ends the function instead of being skipped
NextDevice_Return ==
    /\ pc = "device"
    /\ di <= Len(devices)
    /\ IF Len(devices[di]) = 0
       THEN /\ pc' = "done"
            /\ UNCHANGED <<di, pi>>
       ELSE /\ pi' = 1
            /\ pc' = "packet"
            /\ UNCHANGED di
    /\ UNCHANGED <<devices, value, accel_data, status, ibeacon_data, calls, log>>

\* lines 121-130: the next device; one without manufacturer data is skipped
NextDevice ==
    /\ pc = "device"
    /\ di <= Len(devices)
    /\ IF Len(devices[di]) = 0
       THEN /\ di' = di + 1
            /\ UNCHANGED <<pc, pi>>
       ELSE /\ pi' = 1
            /\ pc' = "packet"
            /\ UNCHANGED di
    /\ UNCHANGED <<devices, value, accel_data, status, ibeacon_data, calls, log>>

\* line 121: the device list is exhausted
DevicesEnd ==
    /\ pc = "device"
    /\ di > Len(devices)
    /\ pc' = "done"
    /\ UNCHANGED <<devices, di, pi, value, accel_data, status, ibeacon_data, calls, log>>

\* a failed parse leaves the previous payload's sample in accel_data
ParseAccelerometer_Stale ==
    /\ pc = "packet"
    /\ pi <= Len(devices[di])
    /\ value' = devices[di][pi]
    /\ accel_data' = IF parse_accelerometer_data(value') = None THEN accel_data
                     ELSE parse_accelerometer_data(value')
    /\ calls' = [NoCalls EXCEPT !.accel = 1]
    /\ pc' = "dispatch"
    /\ UNCHANGED <<devices, di, pi, status, ibeacon_data, log>>

\* lines 130-135: the next payload of the device is read and handed to
\* parse_accelerometer_data
ParseAccelerometer ==
    /\ pc = "packet"
    /\ pi <= Len(devices[di])
    /\ value' = devices[di][pi]
    /\ accel_data' = parse_accelerometer_data(value')
    /\ calls' = [NoCalls EXCEPT !.accel = 1]
    /\ pc' = "dispatch"
    /\ UNCHANGED <<devices, di, pi, status, ibeacon_data, log>>

\* line 130: the device's payloads are exhausted
EntriesEnd ==
    /\ pc = "packet"
    /\ pi > Len(devices[di])
    /\ di' = di + 1
    /\ pc' = "device"
    /\ UNCHANGED <<devices, pi, value, accel_data, status, ibeacon_data, calls, log>>

LogEntry(kind, c, acc, st, ib) ==
    [device |-> di, entry |-> pi, packet |-> value, kind |-> kind, calls |-> c,
     accel_data |-> acc, status |-> st, ibeacon_data |-> ib]

\* the else is missing: the iBeacon decoder runs after the classifier too
DetectMotion_NoElse ==
    /\ pc = "dispatch"
    /\ Truthy(accel_data)
    /\ status' = detect_motion(accel_data)
    /\ ibeacon_data' = parse_ibeacon_data(value)
    /\ calls' = [calls EXCEPT !.detect = @ + 1, !.ibeacon = @ + 1]
    /\ log' = Append(log, LogEntry("motion", calls', accel_data, status', ibeacon_data'))
    /\ pi' = pi + 1
    /\ pc' = "packet"
    /\ UNCHANGED <<devices, di, value, accel_data>>

\* lines 135-139: the sample is classified and the label printed
DetectMotion ==
    /\ pc = "dispatch"
    /\ Truthy(accel_data)
    /\ status' = detect_motion(accel_data)
    /\ calls' = [calls EXCEPT !.detect = @ + 1]
    /\ log' = Append(log, LogEntry("motion", calls', accel_data, status', ibeacon_data))
    /\ pi' = pi + 1
    /\ pc' = "packet"
    /\ UNCHANGED <<devices, di, value, accel_data, ibeacon_data>>

\* lines 140-147: the fallback; the record is printed, or the failure
TryIBeacon ==
    /\ pc = "dispatch"
    /\ ~Truthy(accel_data)
    /\ ibeacon_data' = parse_ibeacon_data(value)
    /\ calls' = [calls EXCEPT !.ibeacon = @ + 1]
    /\ log' = Append(log, LogEntry(IF Truthy(ibeacon_data') THEN "ibeacon" ELSE "unrecognized",
                                   calls', accel_data, status, ibeacon_data'))
    /\ pi' = pi + 1
    /\ pc' = "packet"
    /\ UNCHANGED <<devices, di, value, accel_data, status>>

Next ==
    \/ Discover
    \/ DiscoverFails
    \/ NextDevice
    \/ DevicesEnd
    \/ ParseAccelerometer
    \/ EntriesEnd
    \/ DetectMotion
    \/ TryIBeacon

Spec == Init /\ [][Next]_vars

\* scan_and_detect is one coroutine run to completion by asyncio.run: once the
\* scan has returned, each step of the loop is taken
FairSpec == Spec /\ WF_vars(Next)

---------------------------------------------------------------------------
(* Properties of the decoders (SpecDecode) *)

\* the unsigned 16-bit big-endian integer at byte offsets o, o+1 of packet p
U16BE(p, o) == 256 * p[o + 1] + p[o + 2]

\* the signed 16-bit two's-complement reading of a raw 16-bit value
S16(raw) == IF raw <= 32767 THEN raw ELSE raw - 65536

\* packet p with every byte outside offsets 13..18 replaced by b
OutsideWindowSet(p, b) == [i \in 1..Len(p) |-> IF (i - 1) \in 13..18 THEN p[i] ELSE b]

\* C1: on a buffer of at least 19 bytes parse_accelerometer_data returns a
\* sample whose x, y, z are the signed 16-bit readings of the big-endian byte
\* pairs at offsets 13-14, 15-16, 17-18; each axis is in [-32768, 32767]; and
\* the sample is the same when every other byte is changed or cut off.
C1_AccelDecode ==
    (calls.accel = 1 /\ Len(value) >= 19) =>
        /\ accel_data.tag = "dict"
        /\ accel_data.x = S16(U16BE(value, 13))
        /\ accel_data.y = S16(U16BE(value, 15))
        /\ accel_data.z = S16(U16BE(value, 17))
        /\ \A f \in {"x", "y", "z"} : accel_data[f] \in -32768..32767
        /\ \A b \in {0, 255} : parse_accelerometer_data(OutsideWindowSet(value, b)) = accel_data
        /\ parse_accelerometer_data(SubSeq(value, 1, 19)) = accel_data

\* a 19-byte buffer with 0x7FFF, 0x8000, 0xFFCE in the window has been decoded
C1_Witness ==
    /\ calls.accel = 1
    /\ Len(value) = 19
    /\ accel_data = [tag |-> "dict", x |-> 32767, y |-> -32768, z |-> -50]

\* C2: on a buffer shorter than 19 bytes (the empty one included)
\* parse_accelerometer_data returns None; on one of exactly 19 bytes it
\* returns a sample.
C2_AccelUnderrun ==
    calls.accel = 1 =>
        /\ Len(value) < 19 => accel_data = None
        /\ Len(value) = 19 => accel_data.tag = "dict"

\* an 18-byte buffer has been refused
C2_Witness == calls.accel = 1 /\ Len(value) = 18 /\ accel_data = None

C4_IBeaconUnderrun ==
    calls.ibeacon = 1 =>
        /\ Len(value) < 28 => ibeacon_data = None
        /\ Len(value) = 28 => ibeacon_data.tag = "dict"

\* a 27-byte buffer has been refused
C4_Witness == calls.ibeacon = 1 /\ Len(value) = 27 /\ ibeacon_data = None

---------------------------------------------------------------------------
(* Properties of the classifier (SpecClassify) *)

\* (x-y)^2 + (y-z)^2 + (x-z)^2 > 450
PairwiseAbove450(d) == SatSq(d.x - d.y) + SatSq(d.y - d.z) + SatSq(d.x - d.z) > 450

\* C5: detect_motion returns "Moving" exactly when
\* (x-y)^2 + (y-z)^2 + (x-z)^2 > 450, that is when the population variance of
\* x, y, z is strictly above 50, and "Stationary" otherwise.
C5_Classify ==
    (calls.detect = 1 /\ accel_data # None) =>
        status = IF PairwiseAbove450(accel_data) THEN "Moving" ELSE "Stationary"

\* the sample x=15, y=0, z=0, whose variance is exactly 50, has been classified
\* Stationary
C5_Witness ==
    /\ calls.detect = 1
    /\ accel_data = [tag |-> "dict", x |-> 15, y |-> 0, z |-> 0]
    /\ status = "Stationary"

\* C9: for a sample of three integers in [-32768, 32767] detect_motion returns
\* "Moving" or "Stationary"; "Error" is returned only when the computation
\* faults, which here is the input that is no sample at all.
C9_NoErrorLabel ==
    calls.detect = 1 =>
        /\ accel_data # None => status \in {"Moving", "Stationary"}
        /\ status = "Error" => accel_data = None

\* a sample at both ends of the 16-bit range has been classified
C9_Witness ==
    /\ calls.detect = 1
    /\ accel_data = [tag |-> "dict", x |-> -32768, y |-> 32767, z |-> 0]
    /\ status = "Moving"

---------------------------------------------------------------------------
(* Properties of the dispatch loop (Spec, FairSpec) *)

\* the number of payloads that precede payload e of device d in the scan
\* result, plus one
Rank(d, e) == SumSeq([j \in 1..(d - 1) |-> Len(devices[j])]) + e

TotalPayloads == SumSeq([j \in 1..Len(devices) |-> Len(devices[j])])

Labels == {"Moving", "Stationary"}

\* C6: a payload on which parse_accelerometer_data succeeds (the all-zero
\* sample included) is classified by detect_motion once and is never handed to
\* parse_ibeacon_data; no payload is handled both as a sample and by the
\* iBeacon decoder.
C6_MutualExclusion ==
    /\ calls.detect + calls.ibeacon <= 1
    /\ \A k \in 1..Len(log) :
          /\ parse_accelerometer_data(log[k].packet) # None =>
                /\ log[k].kind = "motion"
                /\ log[k].calls.detect = 1
                /\ log[k].calls.ibeacon = 0
          /\ ~(log[k].calls.detect > 0 /\ log[k].calls.ibeacon > 0)
          /\ ~(log[k].kind = "motion" /\ log[k].calls.ibeacon > 0)

\* a payload whose sample is x=y=z=0 has been classified, and the iBeacon
\* decoder was not called for it
C6_Witness ==
    \E k \in 1..Len(log) :
        /\ log[k].accel_data = [tag |-> "dict", x |-> 0, y |-> 0, z |-> 0]
        /\ log[k].kind = "motion"
        /\ log[k].calls = [accel |-> 1, ibeacon |-> 0, detect |-> 1]

\* the payloads are handled in the order of the scan result, one outcome each
C7_InOrder ==
    \A k \in 1..Len(log) :
        /\ log[k].device \in 1..Len(devices)
        /\ log[k].entry \in 1..Len(devices[log[k].device])
        /\ Rank(log[k].device, log[k].entry) = k
        /\ log[k].packet = devices[log[k].device][log[k].entry]

\* the accelerometer decoder first; the iBeacon decoder if and only if the
\* first returned None; the outcome follows from the two results
C7_Fallback ==
    /\ pc = "dispatch" => calls = [accel |-> 1, ibeacon |-> 0, detect |-> 0]
    /\ \A k \in 1..Len(log) :
          LET e == log[k] IN
          /\ e.calls.accel = 1
          /\ e.calls.ibeacon = (IF e.accel_data = None THEN 1 ELSE 0)
          /\ e.calls.detect = (IF e.accel_data = None THEN 0 ELSE 1)
          /\ e.kind \in {"motion", "ibeacon", "unrecognized"}
          /\ e.kind = "motion" <=> e.accel_data # None
          /\ e.kind = "motion" => e.status \in Labels
          /\ e.kind = "ibeacon" <=> (e.accel_data = None /\ e.ibeacon_data # None)
          /\ e.kind = "unrecognized" <=> (e.accel_data = None /\ e.ibeacon_data = None)

C7_AllProcessed == pc = "done" => Len(log) = TotalPayloads

\* C7: every payload of every device is handled in order: the accelerometer
\* decoder first, the iBeacon decoder if and only if that returned None, and
\* exactly one outcome of motion label, iBeacon record, unrecognized; and the
\* loop eventually ends, with every payload handled.
C7_DispatchCompletes ==
    /\ [](C7_InOrder /\ C7_Fallback /\ C7_AllProcessed)
    /\ <>(pc = "done")

\* the loop has ended after a motion label and an unrecognized payload from
\* two devices
C7_Witness ==
    /\ pc = "done"
    /\ Len(devices) = 2
    /\ Len(log) = 2
    /\ log[1].kind = "motion"
    /\ log[2].kind = "unrecognized"
    /\ log[2].device = 2

\* C8: what the loop reports for a payload is what the decoders and the
\* classifier give for that payload's bytes alone, whatever was handled before
\* it; the same bytes handled twice give the same results; the scan result is
\* not changed by handling it.
C8_Stateless ==
    /\ pc = "dispatch" =>
          /\ value = devices[di][pi]
          /\ accel_data = parse_accelerometer_data(devices[di][pi])
    /\ \A k \in 1..Len(log) :
          LET e == log[k]
              p == devices[e.device][e.entry]
          IN
          /\ e.packet = p
          /\ e.accel_data = parse_accelerometer_data(p)
          /\ e.kind = "motion" => e.status = detect_motion(parse_accelerometer_data(p))
          /\ e.kind # "motion" => e.ibeacon_data = parse_ibeacon_data(p)
          /\ \A j \in 1..Len(log) :
                log[j].packet = e.packet =>
                    /\ log[j].kind = e.kind
                    /\ log[j].accel_data = e.accel_data
                    /\ log[j].kind = "motion" => log[j].status = e.status

\* a short payload has been reported unrecognized right after a payload that
\* was classified Moving, whose label is still held in status
C8_Witness ==
    /\ Len(log) = 2
    /\ log[1].kind = "motion"
    /\ log[1].status = "Moving"
    /\ log[2].kind = "unrecognized"
    /\ status = "Moving"

\* every payload of the scan result
ScanPayloads == {devices[d][e] : <<d, e>> \in {q \in (1..Len(devices)) \X (1..MaxPayloads) : q[2] <= Len(devices[q[1]])}}

\* C10: a decoder succeeds exactly when the buffer is long enough (19 bytes,
\* 28 bytes), so wherever parse_ibeacon_data succeeds parse_accelerometer_data
\* does too; the loop calls parse_ibeacon_data only on payloads shorter than
\* 19 bytes, where it returns None: no payload ends as an iBeacon record, a
\* payload of at least 19 bytes ends as a motion label and a shorter one as
\* unrecognized.
C10_IBeaconNeverSurfaced ==
    /\ \A p \in ScanPayloads :
          /\ parse_accelerometer_data(p) # None <=> Len(p) >= 19
          /\ parse_ibeacon_data(p) # None <=> Len(p) >= 28
          /\ parse_ibeacon_data(p) # None => parse_accelerometer_data(p) # None
    /\ \A k \in 1..Len(log) :
          LET e == log[k] IN
          /\ e.kind # "ibeacon"
          /\ e.calls.ibeacon > 0 => (Len(e.packet) < 19 /\ e.ibeacon_data = None)
          /\ e.kind = "motion" <=> Len(e.packet) >= 19
          /\ e.kind = "unrecognized" <=> Len(e.packet) < 19

\* a payload of 28 bytes, which parse_ibeacon_data decodes, has ended as a
\* motion label
C10_Witness ==
    \E k \in 1..Len(log) :
        /\ Len(log[k].packet) = 28
        /\ parse_ibeacon_data(log[k].packet) # None
        /\ log[k].kind = "motion"
        /\ log[k].calls.ibeacon = 0

====
